---- MODULE Spec2Model ----
(***************************************************************************)
(* lazyEvaluate: deferred execution of function calls.                     *)
(*                                                                         *)
(* Two implementations of the Executor state machine are modelled:         *)
(*   handle variant    src/src/lazy_evaluate.py      (hook lists, no       *)
(*                     registry; the factory returns the Executor)         *)
(*   registry variant  src/lazyevaluate/lazyEvaluate.py  (factory keeps a  *)
(*                     dict  id(thunk) -> Executor, run/runAll/delID)      *)
(* A behaviour picks one variant in Init and then runs a single-threaded   *)
(* sequence of API calls; each action is one whole call.                   *)
(* The first version of the library, src/lazyEvaluate.py (a dict           *)
(* id(thunk) -> thunk, drained by run and runAll), has the specification   *)
(* LegacySpec.                                                             *)
(***************************************************************************)
EXTENDS Integers, Sequences, FiniteSets, TLC

\* ------------------------------------------------------------------ bounds
MaxExecs  == 2  \* registry variant: factory calls in one behaviour
MaxHExecs == 1  \* handle variant: Executors constructed in one behaviour
MaxRaise  == 1  \* invocations of the wrapped function that raise
MaxHooks  == 2  \* hooks in one hook list
MaxLCalls == 3  \* legacy variant: factory calls in one behaviour

\* ------------------------------------------------------- values and states
\* Python's None; every other value of the model is a positive integer.
None == 0

NOT_EVALUATED == "NOT_EVALUATED"
EVALUATED     == "EVALUATED"
MODIFIED      == "MODIFIED"
States        == {NOT_EVALUATED, EVALUATED, MODIFIED}

\* The arguments the wrapped function is called with in a behaviour, and the
\* values a caller assigns: 2 is a value the wrapped function returns, func(1),
\* and 1 is not.
Vals       == {1, 2}
AssignVals == {1, 2}

\* The wrapped function: what self.f(*self.args, **self.kwargs) / self.func(*args,
\* **kwargs) returns when it returns.  Whether one invocation raises is an input
\* of the action that makes the invocation.
func(a) == a + 1

HookLists == <<"on_init_hooks", "on_eval_hooks", "on_modified_no_eval_hooks",
               "on_modified_after_eval_hooks", "on_modified_after_mod_hooks">>

VARIABLES
    variant,     \* "handle" | "registry": which implementation the behaviour runs
    allow_del,   \* registry variant: _LazyEvaluate.allow_del
    hookcfg,     \* handle variant: the five hook lists given at wrap time
    uidgen,      \* handle variant: TRUE iff a uid generator was given
    gen,         \* handle variant: number of times the uid generator was called
    execs,       \* every Executor constructed so far, in construction order
    calls,       \* registry variant: _LazyEvaluate.calls, in insertion order
    raises,      \* number of wrapped invocations that raised so far
    last,        \* the last API call: what it was given, returned and fired
    threads,     \* stepwise runs: each thread's stack of eval()/setter activations
    behaviour    \* stepwise runs: what each on_eval hook (the eval_hook) does

vars == <<variant, allow_del, hookcfg, uidgen, gen, execs, calls, raises, last,
          threads, behaviour>>

Handles == 1..Len(execs)

\* A hook list argument: None, or a list of n callables (the hooks 1..n).  A
\* caller may also pass a tuple, or an object that is not iterable ("int"), and
\* an entry that is not callable, written None.
NoneList    == [kind |-> "None", items |-> <<>>]
HookList(n) == [kind |-> "list", items |-> [i \in 1..n |-> i]]

\* The hook configurations a behaviour may be wrapped with: all lists absent,
\* all lists of the same length 0..MaxHooks, lists of staggered lengths, or
\* every list a tuple of one callable, which LazyEvaluate accepts as well.
UniformHooks(n) == [l \in 1..5 |-> HookList(n)]
StaggeredHooks  == [l \in 1..5 |-> HookList(l % (MaxHooks + 1))]
NoHooks         == [l \in 1..5 |-> NoneList]
TupleHooks      == [l \in 1..5 |-> [kind |-> "tuple", items |-> <<1>>]]
HookConfigs     == {NoHooks, StaggeredHooks, TupleHooks}
                   \cup {UniformHooks(n) : n \in 0..MaxHooks}

\* Hook arguments a constructor may be given besides: on_eval_hooks an integer,
\* on_eval_hooks a list with an entry that is not callable.
IntHooks     == [NoHooks EXCEPT ![2] = [kind |-> "int", items |-> <<>>]]
BadItemHooks == [NoHooks EXCEPT ![2] = [kind |-> "list", items |-> <<1, None>>]]
BadHookArgs  == {IntHooks, BadItemHooks}

\* What a constructor was given, for the record of the call.
GivenKind(fCallable, hooks) ==
    IF ~fCallable THEN "f not callable"
    ELSE IF \E l \in 1..5 : hooks[l].kind \notin {"None", "list"} THEN "hooks not a list"
    ELSE IF \E l \in 1..5 : \E i \in 1..Len(hooks[l].items) : hooks[l].items[i] = None
    THEN "hook not callable"
    ELSE "valid"

\* `if hooks: for hook in hooks: hook(self)`: None and the empty list call
\* nothing; otherwise every hook of the list is called once, in list order, with
\* the executor.  A call is recorded as
\* <<list, hook, state the hook sees, result the hook sees, uid the hook sees>>.
\* First the loop running over reversed(hooks):
FireHooks_reversed(l, hooks, e) ==
    IF hooks.kind = "None" \/ Len(hooks.items) = 0 THEN <<>>
    ELSE [i \in 1..Len(hooks.items) |->
            <<HookLists[l], hooks.items[Len(hooks.items) + 1 - i], e.state, e.result, e.uid>>]

FireHooks(l, hooks, e) ==
    IF hooks.kind = "None" \/ Len(hooks.items) = 0 THEN <<>>
    ELSE [i \in 1..Len(hooks.items) |->
            <<HookLists[l], hooks.items[i], e.state, e.result, e.uid>>]

\* The record of an API call: which call, the Executor it acted on (0: none)
\* and the state it found that Executor in, the argument bound or assigned, what
\* it returned or raised, the hook calls it made in order, runAll's returned
\* mapping as <<key, value>> items, whether the call is a runAll that directly
\* follows a runAll that returned, and what kind of arguments a constructor was
\* given.
NoCall == [op |-> "none", h |-> 0, pre |-> "none", arg |-> None, ret |-> None,
           exc |-> "none", fired |-> <<>>, map |-> <<>>, again |-> FALSE,
           given |-> "none"]

\* ------------------------------------------------- handle variant: Executor

\* `for hooks in [...]: assert hooks is None or all(callable(h) for h in hooks)`:
\* the lists are tested in order; one that is not iterable raises TypeError,
\* one with an entry that is not callable fails the assertion, and any
\* iterable of callables passes.
HooksAssert(hooks) ==
    LET bad == {l \in 1..5 :
                  \/ hooks[l].kind = "int"
                  \/ /\ hooks[l].kind # "None"
                     /\ \E i \in 1..Len(hooks[l].items) : hooks[l].items[i] = None}
    IN IF bad = {} THEN "none"
       ELSE LET l == CHOOSE k \in bad : \A m \in bad : k <= m
            IN IF hooks[l].kind = "int" THEN "TypeError: object is not iterable"
               ELSE "AssertionError: hooks"

\* Executor.__init__'s assertions, in order.
HExecutor_init_asserts(fCallable, uidKind, argsKind, kwargsKind, hooks) ==
    IF ~fCallable THEN "AssertionError: callable(f)"
    ELSE IF ~(uidKind = "None" \/ uidKind = "callable")
    THEN "AssertionError: uid is None or callable(uid)"
    ELSE IF argsKind # "list" THEN "AssertionError: isinstance(args, list)"
    ELSE IF kwargsKind # "dict" THEN "AssertionError: isinstance(kwargs, dict)"
    ELSE HooksAssert(hooks)

\* LazyEvaluate(_func, ..., uid)'s assertions, in order.  form "direct" is
\* LazyEvaluate(f, ...), where _func is f; form "with_args" is
\* LazyEvaluate(...)(f), where _func is None when the assertions run and the
\* returned lambda hands f to _LazyEvaluate, which tests nothing.
HLazyEvaluate_asserts(form, fCallable, uidKind, hooks) ==
    IF form = "direct" /\ ~fCallable
    THEN "AssertionError: _func is None or isinstance(_func, Callable)"
    ELSE IF HooksAssert(hooks) # "none" THEN HooksAssert(hooks)
    ELSE IF ~(uidKind = "None" \/ uidKind = "callable")
    THEN "AssertionError: uid is None or callable(uid)"
    ELSE "none"

\* Executor.__init__ after its assertions.  uidVal is what uid() returns when a
\* uid callable is given, tok is id(self).
HExecutor_init(a, hooks, uidKind, uidVal, tok) ==
    LET e == [f |-> TRUE, args |-> a,
              uid |-> IF uidKind # "None" THEN uidVal ELSE tok,
              result |-> None,
              on_init_hooks |-> hooks[1],
              on_eval_hooks |-> hooks[2],
              on_modified_no_eval_hooks |-> hooks[3],
              on_modified_after_eval_hooks |-> hooks[4],
              on_modified_after_mod_hooks |-> hooks[5],
              state |-> NOT_EVALUATED,
              \* probes: invocations of the wrapped function, whether one raised,
              \* whether a read found NOT_EVALUATED, the last assigned value,
              \* the number of on_eval hook calls
              invoked |-> 0, raised |-> FALSE, readNE |-> FALSE,
              assigned |-> None, evalFires |-> 0]
    IN [e |-> e, fired |-> FireHooks(1, e.on_init_hooks, e)]

\* Executor.eval with the test `state != MODIFIED` for `state == NOT_EVALUATED`:
\* an EVALUATED Executor is evaluated again.
HExecutor_eval_reinvoke(e, fails) ==
    IF e.state # MODIFIED
    THEN LET e1 == [e EXCEPT !.invoked = @ + 1,
                             !.result = func(e.args),
                             !.state = EVALUATED]
         IN [e |-> e1, ret |-> e1.result, exc |-> "none", fired |-> <<>>]
    ELSE [e |-> e, ret |-> e.result, exc |-> "none", fired |-> <<>>]

\* Executor.eval with the hook loop outside the `if`: every read calls the
\* on_eval hooks.
HExecutor_eval_hooks_each_read(e, fails) ==
    IF e.state = NOT_EVALUATED
    THEN IF fails
         THEN [e |-> [e EXCEPT !.invoked = @ + 1, !.raised = TRUE],
               ret |-> None, exc |-> "FuncError", fired |-> <<>>]
         ELSE LET e1 == [e EXCEPT !.invoked = @ + 1,
                                  !.result = func(e.args),
                                  !.state = EVALUATED]
                  fd == FireHooks(2, e1.on_eval_hooks, e1)
              IN [e |-> [e1 EXCEPT !.evalFires = @ + Len(fd)],
                  ret |-> e1.result, exc |-> "none", fired |-> fd]
    ELSE LET fd == FireHooks(2, e.on_eval_hooks, e)
         IN [e |-> [e EXCEPT !.evalFires = @ + Len(fd)],
             ret |-> e.result, exc |-> "none", fired |-> fd]

\* Executor.eval with the hook loop before the writes of result and state: a
\* hook sees the Executor as it was before the evaluation.
HExecutor_eval_hooks_first(e, fails) ==
    IF e.state = NOT_EVALUATED
    THEN IF fails
         THEN [e |-> [e EXCEPT !.invoked = @ + 1, !.raised = TRUE],
               ret |-> None, exc |-> "FuncError", fired |-> <<>>]
         ELSE LET e1 == [e EXCEPT !.invoked = @ + 1,
                                  !.result = func(e.args),
                                  !.state = EVALUATED]
                  fd == FireHooks(2, e.on_eval_hooks, e)
              IN [e |-> [e1 EXCEPT !.evalFires = @ + Len(fd)],
                  ret |-> e1.result, exc |-> "none", fired |-> fd]
    ELSE [e |-> e, ret |-> e.result, exc |-> "none", fired |-> <<>>]

\* Executor.eval.  fails: the invocation of the wrapped function raises.
HExecutor_eval(e, fails) ==
    IF e.state = NOT_EVALUATED
    THEN IF fails
         THEN [e |-> [e EXCEPT !.invoked = @ + 1, !.raised = TRUE],
               ret |-> None, exc |-> "FuncError", fired |-> <<>>]
         ELSE LET e1 == [e EXCEPT !.invoked = @ + 1,
                                  !.result = func(e.args),
                                  !.state = EVALUATED]
                  fd == FireHooks(2, e1.on_eval_hooks, e1)
              IN [e |-> [e1 EXCEPT !.evalFires = @ + Len(fd)],
                  ret |-> e1.result, exc |-> "none", fired |-> fd]
    ELSE [e |-> e, ret |-> e.result, exc |-> "none", fired |-> <<>>]

\* The setter storing v only when nothing is cached yet: an EVALUATED Executor
\* keeps its result.
HExecutor_value_set_keep_cached(e, v) ==
    LET e1 == [e EXCEPT !.result = IF e.state = EVALUATED THEN @ ELSE v,
                        !.state = MODIFIED]
    IN IF e.state = NOT_EVALUATED
       THEN [e |-> e1, fired |-> FireHooks(3, e1.on_modified_no_eval_hooks, e1)]
       ELSE IF e.state = EVALUATED
       THEN [e |-> e1, fired |-> FireHooks(4, e1.on_modified_after_eval_hooks, e1)]
       ELSE [e |-> e1, fired |-> FireHooks(5, e1.on_modified_after_mod_hooks, e1)]

\* The setter without `self.state = States.MODIFIED` in its EVALUATED branch.
HExecutor_value_set_stay_evaluated(e, v) ==
    LET e1 == [e EXCEPT !.result = v, !.state = MODIFIED]
        e2 == [e EXCEPT !.result = v]
    IN IF e.state = NOT_EVALUATED
       THEN [e |-> e1, fired |-> FireHooks(3, e1.on_modified_no_eval_hooks, e1)]
       ELSE IF e.state = EVALUATED
       THEN [e |-> e2, fired |-> FireHooks(4, e2.on_modified_after_eval_hooks, e2)]
       ELSE [e |-> e1, fired |-> FireHooks(5, e1.on_modified_after_mod_hooks, e1)]

\* The setter with the hook lists of its last two branches exchanged.
HExecutor_value_set_wrong_list(e, v) ==
    LET e1 == [e EXCEPT !.result = v, !.state = MODIFIED]
    IN IF e.state = NOT_EVALUATED
       THEN [e |-> e1, fired |-> FireHooks(3, e1.on_modified_no_eval_hooks, e1)]
       ELSE IF e.state = EVALUATED
       THEN [e |-> e1, fired |-> FireHooks(5, e1.on_modified_after_mod_hooks, e1)]
       ELSE [e |-> e1, fired |-> FireHooks(4, e1.on_modified_after_eval_hooks, e1)]

\* Executor.value (setter).
HExecutor_value_set(e, v) ==
    LET e1 == [e EXCEPT !.result = v, !.state = MODIFIED]
    IN IF e.state = NOT_EVALUATED
       THEN [e |-> e1, fired |-> FireHooks(3, e1.on_modified_no_eval_hooks, e1)]
       ELSE IF e.state = EVALUATED
       THEN [e |-> e1, fired |-> FireHooks(4, e1.on_modified_after_eval_hooks, e1)]
       ELSE [e |-> e1, fired |-> FireHooks(5, e1.on_modified_after_mod_hooks, e1)]

\* f.__name__ of the wrapped function, the Executor's display name.
f_name == "fdiv"

\* format(self.state, ""): the enumeration's name, a dot, the member's name.
StateTag(state) == "States." \o state

\* Executor.__repr__ of the handle variant (str(e) is repr(e)): the f-string
\* '<Executor for {f_name} @ {uid}, current state = {state}>', as the sequence of
\* its literal and formatted pieces.
HExecutor_repr(e) ==
    <<"<Executor for ", f_name, " @ ", ToString(e.uid), ", current state = ",
      StateTag(e.state), ">">>

\* id(self) of a new Executor.  The caller keeps every handle, so every Executor
\* constructed so far is live and the new one's identity differs from all of
\* theirs: the identity of the n-th Executor is named n.
FreeObjIds == {Len(execs) + 1}

\* ----------------------------------------------- registry variant: Executor

\* _LazyEvaluate.calls is a dict: here the sequence of its <<key, handle>> items
\* in insertion order.  d[k] = v on a key already present replaces the value in
\* place.
HasKey(d, k)     == \E i \in 1..Len(d) : d[i][1] = k
Lookup(d, k)     == d[CHOOSE i \in 1..Len(d) : d[i][1] = k][2]
DictSet(d, k, v) == IF HasKey(d, k)
                    THEN [i \in 1..Len(d) |-> IF d[i][1] = k THEN <<k, v>> ELSE d[i]]
                    ELSE Append(d, <<k, v>>)
DictDel(d, k)    == SelectSeq(d, LAMBDA p : p[1] # k)
Keys(d)          == {d[i][1] : i \in 1..Len(d)}

\* Executor.__init__ of the registry variant; a is what the thunk op binds.
RExecutor_init(a, uid, eval_hook) ==
    [op |-> TRUE, uid |-> uid, result |-> None, eval_hook |-> eval_hook,
     state |-> NOT_EVALUATED, args |-> a,
     \* probes, as in the handle variant; args is what the thunk binds, kept
     \* until a value is assigned
     invoked |-> 0, raised |-> FALSE, readNE |-> FALSE, assigned |-> None,
     evalFires |-> 0]

\* Executor.__str__ of the registry variant: the f-string
\* 'Executor for {name}, current state = {state}', as the sequence of its
\* pieces; name is self.func.__name__.
RExecutor_str(e) == <<"Executor for ", f_name, ", current state = ", StateTag(e.state)>>

\* Executor.dropOp
RExecutor_dropOp(e) == [e EXCEPT !.op = FALSE]

\* delID without the test of allow_del: the entry is deleted whatever the
\* factory's setting.
RLazyEvaluate_delID_always(cl, call_id) ==
    IF HasKey(cl, call_id)
    THEN [calls |-> DictDel(cl, call_id), exc |-> "none"]
    ELSE [calls |-> cl, exc |-> "KeyError"]

\* delID with self.calls.clear() for `del self.calls[call_id]`.
RLazyEvaluate_delID_clear(cl, call_id) ==
    IF allow_del
    THEN IF HasKey(cl, call_id)
         THEN [calls |-> <<>>, exc |-> "none"]
         ELSE [calls |-> cl, exc |-> "KeyError"]
    ELSE [calls |-> cl, exc |-> "none"]

\* _LazyEvaluate.delID, after call_id is resolved to the integer.
RLazyEvaluate_delID(cl, call_id) ==
    IF allow_del
    THEN IF HasKey(cl, call_id)
         THEN [calls |-> DictDel(cl, call_id), exc |-> "none"]
         ELSE [calls |-> cl, exc |-> "KeyError"]
    ELSE [calls |-> cl, exc |-> "none"]

\* Executor.eval of the registry variant without the call of eval_hook: an
\* evaluation never deletes the entry.
RExecutor_eval_no_hook(ex, cl, h, fails) ==
    LET e == ex[h]
    IN IF e.state = NOT_EVALUATED
       THEN IF fails
            THEN [execs |-> [ex EXCEPT ![h] = [e EXCEPT !.invoked = @ + 1, !.raised = TRUE]],
                  calls |-> cl, ret |-> None, exc |-> "FuncError"]
            ELSE LET e1 == [e EXCEPT !.invoked = @ + 1,
                                     !.result = func(e.args),
                                     !.state = EVALUATED]
                 IN [execs |-> [ex EXCEPT ![h] = RExecutor_dropOp(e1)],
                     calls |-> cl, ret |-> e1.result, exc |-> "none"]
       ELSE [execs |-> ex, calls |-> cl, ret |-> e.result, exc |-> "none"]

\* Executor.eval of the registry variant with the state written before the
\* invocation: an invocation that raises leaves the Executor EVALUATED.
RExecutor_eval_state_first(ex, cl, h, fails) ==
    LET e == ex[h]
    IN IF e.state = NOT_EVALUATED
       THEN IF fails
            THEN [execs |-> [ex EXCEPT ![h] = [e EXCEPT !.invoked = @ + 1, !.raised = TRUE,
                                                        !.state = EVALUATED]],
                  calls |-> cl, ret |-> None, exc |-> "FuncError"]
            ELSE LET e1 == [e EXCEPT !.invoked = @ + 1,
                                     !.result = func(e.args),
                                     !.state = EVALUATED]
                     d  == IF e1.eval_hook THEN RLazyEvaluate_delID(cl, e1.uid)
                                           ELSE [calls |-> cl, exc |-> "none"]
                     e2 == [e1 EXCEPT !.evalFires = IF e1.eval_hook THEN @ + 1 ELSE @]
                 IN IF d.exc # "none"
                    THEN [execs |-> [ex EXCEPT ![h] = e2], calls |-> d.calls,
                          ret |-> None, exc |-> d.exc]
                    ELSE [execs |-> [ex EXCEPT ![h] = RExecutor_dropOp(e2)],
                          calls |-> d.calls, ret |-> e2.result, exc |-> "none"]
       ELSE [execs |-> ex, calls |-> cl, ret |-> e.result, exc |-> "none"]

\* Executor.eval of the registry variant on Executor h; eval_hook is the
\* factory's lambda: self.delID(call_id).
RExecutor_eval(ex, cl, h, fails) ==
    LET e == ex[h]
    IN IF e.state = NOT_EVALUATED
       THEN IF fails
            THEN [execs |-> [ex EXCEPT ![h] = [e EXCEPT !.invoked = @ + 1, !.raised = TRUE]],
                  calls |-> cl, ret |-> None, exc |-> "FuncError"]
            ELSE LET e1 == [e EXCEPT !.invoked = @ + 1,
                                     !.result = func(e.args),
                                     !.state = EVALUATED]
                     d  == IF e1.eval_hook THEN RLazyEvaluate_delID(cl, e1.uid)
                                           ELSE [calls |-> cl, exc |-> "none"]
                     e2 == [e1 EXCEPT !.evalFires = IF e1.eval_hook THEN @ + 1 ELSE @]
                 IN IF d.exc # "none"
                    THEN [execs |-> [ex EXCEPT ![h] = e2], calls |-> d.calls,
                          ret |-> None, exc |-> d.exc]
                    ELSE [execs |-> [ex EXCEPT ![h] = RExecutor_dropOp(e2)],
                          calls |-> d.calls, ret |-> e2.result, exc |-> "none"]
       ELSE [execs |-> ex, calls |-> cl, ret |-> e.result, exc |-> "none"]

\* Executor.value (setter) of the registry variant.
RExecutor_value_set(e, v) ==
    RExecutor_dropOp([e EXCEPT !.result = v, !.state = MODIFIED])

\* id(op) of a new thunk: an identity no live thunk has.  A thunk lives while an
\* Executor holds it in op; once dropped, its identity may be given to a new
\* thunk.  So id(op) is an identity never used before (named by the number of
\* the call) or the identity of a dropped thunk.
LiveThunkIds == {execs[h].uid : h \in {g \in Handles : execs[g].op}}
DeadThunkIds == {execs[h].uid : h \in Handles} \ LiveThunkIds
FreeThunkIds == {Len(execs) + 1} \cup DeadThunkIds

\* _LazyEvaluate.runAll's comprehension over list(self.calls.items()): the items
\* of the snapshot are read in order; failAt is the position whose invocation of
\* the wrapped function raises (0: none does).
RECURSIVE RunAllFrom(_, _, _, _, _, _)
RunAllFrom(ex, cl, snap, i, failAt, acc) ==
    IF i > Len(snap)
    THEN [execs |-> ex, calls |-> cl, map |-> acc, exc |-> "none"]
    ELSE LET r == RExecutor_eval(ex, cl, snap[i][2], i = failAt)
         IN IF r.exc # "none"
            THEN [execs |-> r.execs, calls |-> r.calls, map |-> <<>>, exc |-> r.exc]
            ELSE RunAllFrom(r.execs, r.calls, snap, i + 1, failAt,
                            Append(acc, <<snap[i][1], r.ret>>))

\* runAll without list(): the sweep indexes the registry as it is at each
\* step, so an entry deleted by an evaluation moves the later entries up and the
\* sweep passes over them.
RECURSIVE RunAllLive(_, _, _, _, _)
RunAllLive(ex, cl, i, failAt, acc) ==
    IF i > Len(cl)
    THEN [execs |-> ex, calls |-> cl, map |-> acc, exc |-> "none"]
    ELSE LET r == RExecutor_eval(ex, cl, cl[i][2], i = failAt)
         IN IF r.exc # "none"
            THEN [execs |-> r.execs, calls |-> r.calls, map |-> <<>>, exc |-> r.exc]
            ELSE RunAllLive(r.execs, r.calls, i + 1, failAt,
                            Append(acc, <<cl[i][1], r.ret>>))

RLazyEvaluate_runAll_live(ex, cl, failAt) == RunAllLive(ex, cl, 1, failAt, <<>>)

\* runAll with each read in try/except: an entry whose invocation raises is left
\* out of the mapping and the sweep goes on.
RECURSIVE RunAllSwallow(_, _, _, _, _, _)
RunAllSwallow(ex, cl, snap, i, failAt, acc) ==
    IF i > Len(snap)
    THEN [execs |-> ex, calls |-> cl, map |-> acc, exc |-> "none"]
    ELSE LET r == RExecutor_eval(ex, cl, snap[i][2], i = failAt)
         IN RunAllSwallow(r.execs, r.calls, snap, i + 1, failAt,
                          IF r.exc # "none" THEN acc
                          ELSE Append(acc, <<snap[i][1], r.ret>>))

RLazyEvaluate_runAll_swallow(ex, cl, failAt) == RunAllSwallow(ex, cl, cl, 1, failAt, <<>>)

RLazyEvaluate_runAll(ex, cl, failAt) == RunAllFrom(ex, cl, cl, 1, failAt, <<>>)

TypeOK == /\ variant \in {"handle", "registry"}
          /\ Len(execs) <= MaxExecs + MaxHExecs

Init == /\ variant \in {"handle", "registry"}
        /\ allow_del \in (IF variant = "registry" THEN BOOLEAN ELSE {TRUE})
        /\ hookcfg \in (IF variant = "handle" THEN HookConfigs ELSE {NoHooks})
        /\ uidgen \in (IF variant = "handle" THEN BOOLEAN ELSE {FALSE})
        /\ gen = 0
        /\ execs = <<>>
        /\ calls = <<>>
        /\ raises = 0
        /\ last = NoCall
        /\ threads = <<>>
        /\ behaviour = <<>>

\* Executor(f, args, {}, *hooks, uid): direct construction by the caller, with
\* the arguments in a list or (wrongly) in a tuple.
HNewExecutor ==
    /\ variant = "handle"
    /\ Len(execs) < MaxHExecs
    /\ uidgen => gen < MaxHExecs
    /\ \E a \in Vals, argsKind \in {"list", "tuple"}, tok \in FreeObjIds,
          fCallable \in BOOLEAN, hooks \in {hookcfg} \cup BadHookArgs :
         LET uidKind == IF uidgen THEN "callable" ELSE "None"
             exc == HExecutor_init_asserts(fCallable, uidKind, argsKind, "dict", hooks)
             r == HExecutor_init(a, hooks, uidKind, gen + 1, tok)
             given == GivenKind(fCallable, hooks)
         IN IF exc # "none"
            THEN /\ last' = [NoCall EXCEPT !.op = "Executor", !.arg = a, !.exc = exc,
                                           !.given = given]
                 /\ UNCHANGED <<execs, gen>>
            ELSE /\ execs' = Append(execs, r.e)
                 /\ gen' = IF uidgen THEN gen + 1 ELSE gen
                 /\ last' = [NoCall EXCEPT !.op = "Executor", !.arg = a,
                                           !.h = Len(execs) + 1, !.fired = r.fired,
                                           !.given = given]
    /\ UNCHANGED <<threads, behaviour, variant, allow_del, hookcfg, uidgen, calls, raises>>

\* LazyEvaluate(f, ...) or LazyEvaluate(...)(f): another factory is made, or the
\* call raises; the factory of this behaviour is not touched.  Factories are
\* made before the first Executor is.
HLazyEvaluate_wrap ==
    /\ variant = "handle"
    /\ execs = <<>>
    /\ \E form \in {"direct", "with_args"}, fCallable \in BOOLEAN,
          hooks \in {hookcfg} \cup BadHookArgs :
         LET uidKind == IF uidgen THEN "callable" ELSE "None"
         IN last' = [NoCall EXCEPT !.op = "wrap",
                                   !.exc = HLazyEvaluate_asserts(form, fCallable, uidKind, hooks),
                                   !.given = GivenKind(fCallable, hooks)]
    /\ UNCHANGED <<threads, behaviour, variant, allow_del, hookcfg, uidgen, gen, execs, calls, raises>>

\* _LazyEvaluate.__call__ of the handle variant: *args arrives as a tuple, and
\* the uid handed to Executor is the generator's value, not the generator.
HLazyEvaluate_call ==
    /\ variant = "handle"
    /\ Len(execs) < MaxHExecs
    /\ uidgen => gen < MaxHExecs
    /\ \E a \in Vals, tok \in FreeObjIds :
         LET call_id == IF uidgen THEN gen + 1 ELSE None
             uidKind == IF uidgen THEN "int" ELSE "None"
             exc == HExecutor_init_asserts(TRUE, uidKind, "tuple", "dict", hookcfg)
             r == HExecutor_init(a, hookcfg, uidKind, call_id, tok)
         IN /\ gen' = IF uidgen THEN gen + 1 ELSE gen
            /\ IF exc # "none"
               THEN /\ last' = [NoCall EXCEPT !.op = "call", !.arg = a, !.exc = exc]
                    /\ UNCHANGED execs
               ELSE /\ execs' = Append(execs, r.e)
                    /\ last' = [NoCall EXCEPT !.op = "call", !.arg = a,
                                              !.h = Len(execs) + 1, !.fired = r.fired]
    /\ UNCHANGED <<threads, behaviour, variant, allow_del, hookcfg, uidgen, calls, raises>>

\* e.value / e.eval() on a handle-variant Executor.
HRead ==
    /\ variant = "handle"
    /\ \E h \in Handles, fails \in BOOLEAN :
         /\ fails => (execs[h].state = NOT_EVALUATED /\ raises < MaxRaise)
         /\ LET e == execs[h]
                r == HExecutor_eval(e, fails)
            IN /\ execs' = [execs EXCEPT ![h] =
                               [r.e EXCEPT !.readNE = @ \/ e.state = NOT_EVALUATED]]
               /\ raises' = IF fails THEN raises + 1 ELSE raises
               /\ last' = [NoCall EXCEPT !.op = "read", !.h = h, !.pre = e.state, !.ret = r.ret,
                                         !.exc = r.exc, !.fired = r.fired]
    /\ UNCHANGED <<threads, behaviour, variant, allow_del, hookcfg, uidgen, gen, calls>>

\* e.value = v on a handle-variant Executor.
HAssign ==
    /\ variant = "handle"
    /\ \E h \in Handles, v \in AssignVals :
         LET e == execs[h]
             r == HExecutor_value_set(e, v)
         IN /\ execs' = [execs EXCEPT ![h] = [r.e EXCEPT !.assigned = v]]
            /\ last' = [NoCall EXCEPT !.op = "assign", !.h = h, !.pre = e.state, !.arg = v,
                                      !.fired = r.fired]
    /\ UNCHANGED <<threads, behaviour, variant, allow_del, hookcfg, uidgen, gen, calls, raises>>

\* _LazyEvaluate.__call__ of the registry variant.
RLazyEvaluate_call ==
    /\ variant = "registry"
    /\ Len(execs) < MaxExecs
    /\ \E a \in Vals, call_id \in FreeThunkIds :
         LET h == Len(execs) + 1
         IN /\ execs' = Append(execs, RExecutor_init(a, call_id, TRUE))
            /\ calls' = DictSet(calls, call_id, h)
            /\ last' = [NoCall EXCEPT !.op = "call", !.h = h, !.arg = a]
    /\ UNCHANGED <<threads, behaviour, variant, allow_del, hookcfg, uidgen, gen, raises>>

\* e.value / e.eval() on a registry-variant Executor.
RRead ==
    /\ variant = "registry"
    /\ \E h \in Handles, fails \in BOOLEAN :
         /\ fails => (execs[h].state = NOT_EVALUATED /\ raises < MaxRaise)
         /\ LET e == execs[h]
                r == RExecutor_eval(execs, calls, h, fails)
            IN /\ execs' = [r.execs EXCEPT ![h].readNE = @ \/ e.state = NOT_EVALUATED]
               /\ calls' = r.calls
               /\ raises' = IF fails THEN raises + 1 ELSE raises
               /\ last' = [NoCall EXCEPT !.op = "read", !.h = h, !.pre = e.state, !.ret = r.ret,
                                         !.exc = r.exc]
    /\ UNCHANGED <<threads, behaviour, variant, allow_del, hookcfg, uidgen, gen>>

\* e.value = v on a registry-variant Executor.
RAssign ==
    /\ variant = "registry"
    /\ \E h \in Handles, v \in AssignVals :
         LET e == execs[h]
         IN /\ execs' = [execs EXCEPT ![h] =
                            [RExecutor_value_set(e, v) EXCEPT !.assigned = v, !.args = None]]
            /\ last' = [NoCall EXCEPT !.op = "assign", !.h = h, !.pre = e.state, !.arg = v]
    /\ UNCHANGED <<threads, behaviour, variant, allow_del, hookcfg, uidgen, gen, calls, raises>>

\* What run and delID may be given: an integer (an identifier in use, or one
\* never issued) or an Executor.
CallIdArgs == [kind : {"int"}, v : 1..(MaxExecs + 1)] \cup [kind : {"Executor"}, v : Handles]

\* `if isinstance(call_id, Executor): call_id = call_id.uid`
ResolveId(x) == IF x.kind = "Executor" THEN execs[x.v].uid ELSE x.v

\* run evaluating every entry of the registry before it returns the value of
\* the one asked for.
RLazyEvaluate_runId_sweep(ex, cl, call_id, fails) ==
    IF ~HasKey(cl, call_id)
    THEN [execs |-> ex, calls |-> cl, ret |-> None, exc |-> "KeyError"]
    ELSE LET r == RunAllFrom(ex, cl, cl, 1, 0, <<>>)
         IN [execs |-> r.execs, calls |-> r.calls,
             ret |-> r.execs[Lookup(cl, call_id)].result, exc |-> "none"]

\* run with self.calls.get(call_id) and None for an identifier that is absent.
RLazyEvaluate_runId_missing_none(ex, cl, call_id, fails) ==
    IF ~HasKey(cl, call_id)
    THEN [execs |-> ex, calls |-> cl, ret |-> None, exc |-> "none"]
    ELSE RExecutor_eval(ex, cl, Lookup(cl, call_id), fails)

\* _LazyEvaluate.run after call_id is resolved to the integer:
\* self.calls[call_id].value
RLazyEvaluate_runId(ex, cl, call_id, fails) ==
    IF ~HasKey(cl, call_id)
    THEN [execs |-> ex, calls |-> cl, ret |-> None, exc |-> "KeyError"]
    ELSE RExecutor_eval(ex, cl, Lookup(cl, call_id), fails)

\* _LazyEvaluate.run
RLazyEvaluate_run ==
    /\ variant = "registry"
    /\ \E x \in CallIdArgs, fails \in BOOLEAN :
         LET call_id == ResolveId(x)
         IN IF ~HasKey(calls, call_id)
            THEN /\ ~fails
                 /\ last' = [NoCall EXCEPT !.op = "run",
                                           !.exc = RLazyEvaluate_runId(execs, calls, call_id,
                                                                       FALSE).exc]
                 /\ UNCHANGED <<execs, calls, raises>>
            ELSE LET h == Lookup(calls, call_id)
                     e == execs[h]
                     r == RLazyEvaluate_runId(execs, calls, call_id, fails)
                 IN /\ fails => (e.state = NOT_EVALUATED /\ raises < MaxRaise)
                    /\ execs' = [r.execs EXCEPT ![h].readNE = @ \/ e.state = NOT_EVALUATED]
                    /\ calls' = r.calls
                    /\ raises' = IF fails THEN raises + 1 ELSE raises
                    /\ last' = [NoCall EXCEPT !.op = "run", !.h = h, !.pre = e.state,
                                              !.ret = r.ret, !.exc = r.exc]
    /\ UNCHANGED <<threads, behaviour, variant, allow_del, hookcfg, uidgen, gen>>

\* _LazyEvaluate.runAll
RLazyEvaluate_runAllCall ==
    /\ variant = "registry"
    /\ \E failAt \in 0..Len(calls) :
         /\ failAt # 0 => /\ raises < MaxRaise
                          /\ execs[calls[failAt][2]].state = NOT_EVALUATED
         /\ LET r == RLazyEvaluate_runAll(execs, calls, failAt)
                read == {calls[i][2] : i \in 1..(IF failAt = 0 THEN Len(calls) ELSE failAt)}
            IN /\ execs' = [h \in Handles |->
                              IF h \in read
                              THEN [r.execs[h] EXCEPT
                                      !.readNE = @ \/ execs[h].state = NOT_EVALUATED]
                              ELSE r.execs[h]]
               /\ calls' = r.calls
               /\ raises' = IF failAt # 0 THEN raises + 1 ELSE raises
               /\ last' = [NoCall EXCEPT !.op = "runAll", !.exc = r.exc, !.map = r.map,
                                         !.again = (last.op = "runAll" /\ last.exc = "none")]
    /\ UNCHANGED <<threads, behaviour, variant, allow_del, hookcfg, uidgen, gen>>

\* _LazyEvaluate.delID
RLazyEvaluate_delIDCall ==
    /\ variant = "registry"
    /\ \E x \in CallIdArgs :
         LET call_id == ResolveId(x)
             r == RLazyEvaluate_delID(calls, call_id)
         IN /\ calls' = r.calls
            /\ last' = [NoCall EXCEPT !.op = "delID", !.exc = r.exc]
    /\ UNCHANGED <<threads, behaviour, variant, allow_del, hookcfg, uidgen, gen, execs, raises>>

Next == \/ HNewExecutor
        \/ HLazyEvaluate_wrap
        \/ HLazyEvaluate_call
        \/ HRead
        \/ HAssign
        \/ RLazyEvaluate_call
        \/ RRead
        \/ RAssign
        \/ RLazyEvaluate_run
        \/ RLazyEvaluate_runAllCall
        \/ RLazyEvaluate_delIDCall

Spec == Init /\ [][Next]_vars

\* --------------------------------------- legacy variant: src/lazyEvaluate.py
\* execs holds one record per factory call, the thunk c; calls is self.calls,
\* the items <<id(c), number of the call>> in insertion order.

\* The thunk `lambda: self.func(*args, **kwargs)` of a call, with its probes:
\* invocations, whether one raised, whether its value was returned to a caller.
Legacy_thunk(a, uid) ==
    [args |-> a, uid |-> uid, invoked |-> 0, raised |-> FALSE, done |-> FALSE]

\* id(c) of a new thunk: an identity no live object has.  A thunk lives while
\* self.calls holds it, so id(c) is an identity never used before or the
\* identity of a thunk that was removed from self.calls.
LegacyFreeIds == ({Len(execs) + 1} \cup {execs[h].uid : h \in Handles}) \ Keys(calls)

\* runAll's comprehension {k: f() for k, f in self.calls.items()} from item i
\* on, then self.calls = dict().  failAt is the position whose invocation
\* raises (0: none): the exception leaves the comprehension, and the assignment
\* to self.calls is not reached.
RECURSIVE Legacy_sweep(_, _, _, _, _)
Legacy_sweep(ex, cl, i, failAt, acc) ==
    IF i > Len(cl)
    THEN [execs |-> [h \in DOMAIN ex |->
                       IF \E j \in 1..Len(cl) : cl[j][2] = h
                       THEN [ex[h] EXCEPT !.done = TRUE] ELSE ex[h]],
          calls |-> <<>>, map |-> acc, exc |-> "none"]
    ELSE LET h == cl[i][2]
         IN IF i = failAt
            THEN [execs |-> [ex EXCEPT ![h].invoked = @ + 1, ![h].raised = TRUE],
                  calls |-> cl, map |-> <<>>, exc |-> "FuncError"]
            ELSE Legacy_sweep([ex EXCEPT ![h].invoked = @ + 1], cl, i + 1, failAt,
                              Append(acc, <<cl[i][1], func(ex[h].args)>>))

\* runAll reading the items from the last to the first.
RECURSIVE Legacy_sweep_down(_, _, _, _, _)
Legacy_sweep_down(ex, cl, i, failAt, acc) ==
    IF i < 1
    THEN [execs |-> [h \in DOMAIN ex |->
                       IF \E j \in 1..Len(cl) : cl[j][2] = h
                       THEN [ex[h] EXCEPT !.done = TRUE] ELSE ex[h]],
          calls |-> <<>>, map |-> acc, exc |-> "none"]
    ELSE LET h == cl[i][2]
         IN IF i = failAt
            THEN [execs |-> [ex EXCEPT ![h].invoked = @ + 1, ![h].raised = TRUE],
                  calls |-> cl, map |-> <<>>, exc |-> "FuncError"]
            ELSE Legacy_sweep_down([ex EXCEPT ![h].invoked = @ + 1], cl, i - 1, failAt,
                                   Append(acc, <<cl[i][1], func(ex[h].args)>>))

Legacy_runAll_reversed(ex, cl, failAt) == Legacy_sweep_down(ex, cl, Len(cl), failAt, <<>>)

\* lazyEvaluate.runAll
Legacy_runAll(ex, cl, failAt) == Legacy_sweep(ex, cl, 1, failAt, <<>>)

\* lazyEvaluate.run: ret_val = self.calls[call_id](); del self.calls[call_id]
Legacy_run(ex, cl, call_id, fails) ==
    IF ~HasKey(cl, call_id)
    THEN [execs |-> ex, calls |-> cl, ret |-> None, exc |-> "KeyError"]
    ELSE LET h == Lookup(cl, call_id)
         IN IF fails
            THEN [execs |-> [ex EXCEPT ![h].invoked = @ + 1, ![h].raised = TRUE],
                  calls |-> cl, ret |-> None, exc |-> "FuncError"]
            ELSE [execs |-> [ex EXCEPT ![h].invoked = @ + 1, ![h].done = TRUE],
                  calls |-> DictDel(cl, call_id), ret |-> func(ex[h].args), exc |-> "none"]

\* lazyEvaluate.__init__
LegacyInit == /\ variant = "legacy"
              /\ allow_del = TRUE
              /\ hookcfg = NoHooks
              /\ uidgen = FALSE
              /\ gen = 0
              /\ execs = <<>>
              /\ calls = <<>>
              /\ raises = 0
              /\ last = NoCall
              /\ threads = <<>>
              /\ behaviour = <<>>

\* lazyEvaluate.__call__: returns id(c)
Legacy_callCall ==
    /\ Len(execs) < MaxLCalls
    /\ \E a \in Vals, call_id \in LegacyFreeIds :
         LET h == Len(execs) + 1
         IN /\ execs' = Append(execs, Legacy_thunk(a, call_id))
            /\ calls' = DictSet(calls, call_id, h)
            /\ last' = [NoCall EXCEPT !.op = "call", !.h = h, !.arg = a, !.ret = call_id]
    /\ UNCHANGED <<threads, behaviour, variant, allow_del, hookcfg, uidgen, gen, raises>>

\* lazyEvaluate.runAll
Legacy_runAllCall ==
    /\ \E failAt \in 0..Len(calls) :
         /\ failAt # 0 => raises < MaxRaise
         /\ LET r == Legacy_runAll(execs, calls, failAt)
            IN /\ execs' = r.execs
               /\ calls' = r.calls
               /\ raises' = IF failAt # 0 THEN raises + 1 ELSE raises
               /\ last' = [NoCall EXCEPT !.op = "runAll", !.exc = r.exc, !.map = r.map,
                                         !.again = (last.op = "runAll" /\ last.exc = "none")]
    /\ UNCHANGED <<threads, behaviour, variant, allow_del, hookcfg, uidgen, gen>>

\* lazyEvaluate.run, given an identifier in use or one that is not a key.
Legacy_runCall ==
    /\ \E call_id \in 1..(MaxLCalls + 1), fails \in BOOLEAN :
         /\ fails => (HasKey(calls, call_id) /\ raises < MaxRaise)
         /\ LET r == Legacy_run(execs, calls, call_id, fails)
            IN /\ execs' = r.execs
               /\ calls' = r.calls
               /\ raises' = IF fails THEN raises + 1 ELSE raises
               /\ last' = [NoCall EXCEPT !.op = "run", !.arg = call_id,
                                         !.h = IF HasKey(calls, call_id)
                                               THEN Lookup(calls, call_id) ELSE 0,
                                         !.ret = r.ret, !.exc = r.exc]
    /\ UNCHANGED <<threads, behaviour, variant, allow_del, hookcfg, uidgen, gen>>

LegacyNext == \/ Legacy_callCall
              \/ Legacy_runAllCall
              \/ Legacy_runCall

LegacySpec == LegacyInit /\ [][LegacyNext]_vars

(***************************************************************************)
(* Stepwise runs of one Executor.  eval() and the value setter are run one  *)
(* statement at a time by up to two threads, and an on_eval hook (handle    *)
(* variant) or the eval_hook (registry variant, Executor constructed        *)
(* directly) may itself read or assign the value of the Executor it is      *)
(* called for.  Each thread has a stack of activations; a hook that reads   *)
(* or assigns pushes an activation on the stack of the thread running it.   *)
(***************************************************************************)
Threads    == {1, 2}
Behaviours == {"pass", "read", "assign"}
MaxTOps    == 3      \* top-level reads and assignments the threads make in all
MaxDepth   == 3      \* interpreter recursion limit, in activations

Truthy(hooks) == hooks.kind # "None" /\ Len(hooks.items) > 0

Frame(fn, v) == [fn |-> fn, pc |-> IF fn = "eval" THEN "check" ELSE "store",
                 i |-> 0, tmp |-> v, lst |-> 0]

\* One statement of an activation: the Executor and the activation after it,
\* the hook it calls (list l, position i; 0 for none), whether the activation
\* returns and what, and the exception it raises.
StepResult(e, fr) == [e |-> e, fr |-> fr, l |-> 0, i |-> 0, done |-> FALSE,
                      ret |-> None, exc |-> "none"]

\* eval() with the hooks called before the state is written
HExecutor_evalStep_hooks_first(e, fr, fails) ==
    LET r == StepResult(e, fr)
    IN CASE fr.pc = "check" ->
              [r EXCEPT !.fr.pc = IF e.state = NOT_EVALUATED THEN "invoke" ELSE "return"]
         [] fr.pc = "invoke" ->
              IF fails
              THEN [r EXCEPT !.e.invoked = @ + 1, !.e.raised = TRUE, !.exc = "FuncError"]
              ELSE [r EXCEPT !.e.invoked = @ + 1, !.fr.tmp = func(e.args), !.fr.pc = "store"]
         [] fr.pc = "store" ->
              [r EXCEPT !.e.result = fr.tmp,
                        !.fr.pc = IF Truthy(e.on_eval_hooks) THEN "hooks" ELSE "state",
                        !.fr.i = 1]
         [] fr.pc = "hooks" ->
              [r EXCEPT !.l = 2, !.i = fr.i, !.e.evalFires = @ + 1,
                        !.fr.i = @ + 1,
                        !.fr.pc = IF fr.i < Len(e.on_eval_hooks.items)
                                  THEN "hooks" ELSE "state"]
         [] fr.pc = "state" ->
              [r EXCEPT !.e.state = EVALUATED, !.fr.pc = "return"]
         [] OTHER ->
              [r EXCEPT !.done = TRUE, !.ret = e.result]

\* eval() that looks at the state again before it invokes the function
HExecutor_evalStep_recheck(e, fr, fails) ==
    LET r == StepResult(e, fr)
    IN CASE fr.pc = "check" ->
              [r EXCEPT !.fr.pc = IF e.state = NOT_EVALUATED THEN "invoke" ELSE "return"]
         [] fr.pc = "invoke" ->
              IF e.state # NOT_EVALUATED THEN [r EXCEPT !.fr.pc = "return"]
              ELSE IF fails
              THEN [r EXCEPT !.e.invoked = @ + 1, !.e.raised = TRUE, !.exc = "FuncError"]
              ELSE [r EXCEPT !.e.invoked = @ + 1, !.fr.tmp = func(e.args), !.fr.pc = "store"]
         [] fr.pc = "store" ->
              [r EXCEPT !.e.result = fr.tmp, !.fr.pc = "state"]
         [] fr.pc = "state" ->
              [r EXCEPT !.e.state = EVALUATED,
                        !.fr.pc = IF Truthy(e.on_eval_hooks) THEN "hooks" ELSE "return",
                        !.fr.i = 1]
         [] fr.pc = "hooks" ->
              [r EXCEPT !.l = 2, !.i = fr.i, !.e.evalFires = @ + 1,
                        !.fr.i = @ + 1,
                        !.fr.pc = IF fr.i < Len(e.on_eval_hooks.items)
                                  THEN "hooks" ELSE "return"]
         [] OTHER ->
              [r EXCEPT !.done = TRUE, !.ret = e.result]

\* Handle variant, Executor.eval, statement by statement:
\*   check   if self.state == States.NOT_EVALUATED
\*   invoke  self.f(*self.args, **self.kwargs)       (fails: the call raises)
\*   store   self.result = <what the call returned>
\*   state   self.state = States.EVALUATED
\*   hooks   hook(self) for the next hook of self.on_eval_hooks
\*   return  return self.result
HExecutor_evalStep(e, fr, fails) ==
    LET r == StepResult(e, fr)
    IN CASE fr.pc = "check" ->
              [r EXCEPT !.fr.pc = IF e.state = NOT_EVALUATED THEN "invoke" ELSE "return"]
         [] fr.pc = "invoke" ->
              IF fails
              THEN [r EXCEPT !.e.invoked = @ + 1, !.e.raised = TRUE, !.exc = "FuncError"]
              ELSE [r EXCEPT !.e.invoked = @ + 1, !.fr.tmp = func(e.args), !.fr.pc = "store"]
         [] fr.pc = "store" ->
              [r EXCEPT !.e.result = fr.tmp, !.fr.pc = "state"]
         [] fr.pc = "state" ->
              [r EXCEPT !.e.state = EVALUATED,
                        !.fr.pc = IF Truthy(e.on_eval_hooks) THEN "hooks" ELSE "return",
                        !.fr.i = 1]
         [] fr.pc = "hooks" ->
              [r EXCEPT !.l = 2, !.i = fr.i, !.e.evalFires = @ + 1,
                        !.fr.i = @ + 1,
                        !.fr.pc = IF fr.i < Len(e.on_eval_hooks.items)
                                  THEN "hooks" ELSE "return"]
         [] OTHER ->
              [r EXCEPT !.done = TRUE, !.ret = e.result]

\* Handle variant, the value setter, statement by statement:
\*   store   self.result = v
\*   check1  if self.state == States.NOT_EVALUATED
\*   check2  elif self.state == States.EVALUATED
\*   check3  elif self.state == States.MODIFIED, else raise Exception
\*   state   self.state = States.MODIFIED
\*   hooks   hook(self) for the next hook of the branch's list
\*   return
HExecutor_value_setStep(e, fr) ==
    LET r == StepResult(e, fr)
        branch(l) == [r EXCEPT !.fr.pc = "state", !.fr.lst = l]
    IN CASE fr.pc = "store" ->
              [r EXCEPT !.e.result = fr.tmp, !.fr.pc = "check1"]
         [] fr.pc = "check1" ->
              IF e.state = NOT_EVALUATED THEN branch(3) ELSE [r EXCEPT !.fr.pc = "check2"]
         [] fr.pc = "check2" ->
              IF e.state = EVALUATED THEN branch(4) ELSE [r EXCEPT !.fr.pc = "check3"]
         [] fr.pc = "check3" ->
              IF e.state = MODIFIED THEN branch(5) ELSE [r EXCEPT !.exc = "Exception"]
         [] fr.pc = "state" ->
              [r EXCEPT !.e.state = MODIFIED,
                        !.fr.pc = IF Truthy(e[HookLists[fr.lst]]) THEN "hooks" ELSE "return",
                        !.fr.i = 1]
         [] fr.pc = "hooks" ->
              [r EXCEPT !.l = fr.lst, !.i = fr.i,
                        !.fr.i = @ + 1,
                        !.fr.pc = IF fr.i < Len(e[HookLists[fr.lst]].items)
                                  THEN "hooks" ELSE "return"]
         [] OTHER ->
              [r EXCEPT !.done = TRUE, !.e.assigned = fr.tmp]

\* Registry variant, Executor.eval, statement by statement:
\*   check   if self.state == States.NOT_EVALUATED
\*   invoke  self.op()
\*   store   self.result = <what the call returned>
\*   state   self.state = States.EVALUATED
\*   hooks   if isinstance(self.eval_hook, Callable): self.eval_hook()
\*   dropOp  self.dropOp()
\*   return  return self.result
RExecutor_evalStep(e, fr, fails) ==
    LET r == StepResult(e, fr)
    IN CASE fr.pc = "check" ->
              [r EXCEPT !.fr.pc = IF e.state = NOT_EVALUATED THEN "invoke" ELSE "return"]
         [] fr.pc = "invoke" ->
              IF fails
              THEN [r EXCEPT !.e.invoked = @ + 1, !.e.raised = TRUE, !.exc = "FuncError"]
              ELSE [r EXCEPT !.e.invoked = @ + 1, !.fr.tmp = func(e.args), !.fr.pc = "store"]
         [] fr.pc = "store" ->
              [r EXCEPT !.e.result = fr.tmp, !.fr.pc = "state"]
         [] fr.pc = "state" ->
              [r EXCEPT !.e.state = EVALUATED,
                        !.fr.pc = IF e.eval_hook THEN "hooks" ELSE "dropOp",
                        !.fr.i = 1]
         [] fr.pc = "hooks" ->
              [r EXCEPT !.l = 2, !.i = 1, !.e.evalFires = @ + 1, !.fr.pc = "dropOp"]
         [] fr.pc = "dropOp" ->
              [r EXCEPT !.e = RExecutor_dropOp(e), !.fr.pc = "return"]
         [] OTHER ->
              [r EXCEPT !.done = TRUE, !.ret = e.result]

\* Registry variant, the value setter, statement by statement:
\*   store   self.result = v
\*   state   self.state = States.MODIFIED
\*   dropOp  self.dropOp()
\*   return
RExecutor_value_setStep(e, fr) ==
    LET r == StepResult(e, fr)
    IN CASE fr.pc = "store" ->
              [r EXCEPT !.e.result = fr.tmp, !.fr.pc = "state"]
         [] fr.pc = "state" ->
              [r EXCEPT !.e.state = MODIFIED, !.fr.pc = "dropOp"]
         [] fr.pc = "dropOp" ->
              [r EXCEPT !.e = RExecutor_dropOp(e), !.fr.pc = "return"]
         [] OTHER ->
              [r EXCEPT !.done = TRUE, !.e.assigned = fr.tmp]

\* A thread: its stack of activations (the running one last), the top-level
\* calls it has started, the kind of the last one, what the last finished one
\* returned or raised, and a probe: whether the thread invoked the wrapped
\* function after an assignment had returned.
Thread == [stack |-> <<>>, ops |-> 0, top |-> "none", ret |-> None, exc |-> "none",
           late |-> FALSE]

Top(t) == threads[t].stack[Len(threads[t].stack)]
TOps   == threads[1].ops + threads[2].ops
Pop(s) == SubSeq(s, 1, Len(s) - 1)

\* What a called hook does: the hooks of the modification lists and a "pass"
\* hook return at once; a "read" hook evaluates `e.value`, an "assign" hook
\* executes `e.value = None`, each a new activation on the calling thread.
HookCall(l, i) ==
    IF l # 2 \/ behaviour[i] = "pass" THEN <<>>
    ELSE IF behaviour[i] = "read" THEN <<Frame("eval", None)>>
    ELSE <<Frame("set", None)>>

\* The thread after the statement r of its running activation: an exception
\* unwinds every activation of the thread (no hook and no method catches), a
\* return pops the activation, a hook call pushes the hook's activation, and a
\* call deeper than the recursion limit raises RecursionError.
AfterStep(t, r) ==
    LET th   == threads[t]
        fr   == Top(t)
        s1   == [th.stack EXCEPT ![Len(th.stack)] = r.fr]
        push == IF r.l = 0 THEN <<>> ELSE HookCall(r.l, r.i)
        th1  == [th EXCEPT !.late = @ \/ (/\ r.e.invoked # execs[1].invoked
                                           /\ execs[1].assigned # None)]
    IN IF r.exc # "none"
       THEN [th1 EXCEPT !.stack = <<>>, !.ret = None, !.exc = r.exc]
       ELSE IF r.done
       THEN IF Len(th.stack) = 1
            THEN [th1 EXCEPT !.stack = <<>>, !.ret = r.ret, !.exc = "none"]
            ELSE [th1 EXCEPT !.stack = Pop(th.stack)]
       ELSE IF push # <<>> /\ Len(th.stack) >= MaxDepth
       THEN [th1 EXCEPT !.stack = <<>>, !.ret = None, !.exc = "RecursionError"]
       ELSE [th1 EXCEPT !.stack = s1 \o push]

\* The hooks given to the Executor: n hooks, at most one of which reads or
\* assigns the value.
HookBehaviours(n) ==
    {b \in [1..n -> Behaviours] : \A i, j \in 1..n : i # j => b[i] = "pass" \/ b[j] = "pass"}

\* The Executor is constructed before the threads start: by Executor(f, [a],
\* on_eval_hooks=...) in the handle variant, by Executor(op, eval_hook=...) in
\* the registry variant.  The on_init hooks have run.
StepInit ==
    /\ variant \in {"handle", "registry"}
    /\ allow_del = TRUE
    /\ hookcfg \in (IF variant = "handle" THEN {UniformHooks(n) : n \in 0..MaxHooks}
                                          ELSE {NoHooks})
    /\ behaviour \in (IF variant = "handle"
                      THEN HookBehaviours(Len(hookcfg[2].items))
                      ELSE HookBehaviours(0) \cup HookBehaviours(1))
    /\ uidgen = FALSE
    /\ gen = 0
    /\ \E a \in Vals :
         execs = <<IF variant = "handle"
                   THEN HExecutor_init(a, hookcfg, "None", None, 1).e
                   ELSE RExecutor_init(a, None, behaviour # <<>>)>>
    /\ calls = <<>>
    /\ raises = 0
    /\ last = NoCall
    /\ threads = [t \in Threads |-> Thread]

\* Thread t reads `e.value`.
TRead(t) ==
    /\ threads[t].stack = <<>>
    /\ t = 1 \/ threads[1].ops > 0
    /\ TOps < MaxTOps
    /\ threads' = [threads EXCEPT ![t] = [@ EXCEPT !.stack = <<Frame("eval", None)>>,
                                                   !.ops = @ + 1, !.top = "read"]]
    /\ UNCHANGED <<variant, allow_del, hookcfg, uidgen, gen, execs, calls, raises, last,
                   behaviour>>

\* Thread t executes `e.value = v`.
TAssign(t) ==
    /\ threads[t].stack = <<>>
    /\ t = 1 \/ threads[1].ops > 0
    /\ TOps < MaxTOps
    /\ \E v \in AssignVals :
         threads' = [threads EXCEPT ![t] = [@ EXCEPT !.stack = <<Frame("set", v)>>,
                                                     !.ops = @ + 1, !.top = "assign"]]
    /\ UNCHANGED <<variant, allow_del, hookcfg, uidgen, gen, execs, calls, raises, last,
                   behaviour>>

\* Thread t executes the next statement of its running eval().
TEvalStep(t) ==
    /\ threads[t].stack # <<>>
    /\ Top(t).fn = "eval"
    /\ \E fails \in BOOLEAN :
         /\ fails => (Top(t).pc = "invoke" /\ raises < MaxRaise)
         /\ LET r == IF variant = "handle"
                     THEN HExecutor_evalStep(execs[1], Top(t), fails)
                     ELSE RExecutor_evalStep(execs[1], Top(t), fails)
            IN /\ execs' = <<r.e>>
               /\ threads' = [threads EXCEPT ![t] = AfterStep(t, r)]
               /\ raises' = IF r.exc = "FuncError" THEN raises + 1 ELSE raises
    /\ UNCHANGED <<variant, allow_del, hookcfg, uidgen, gen, calls, last, behaviour>>

\* Thread t executes the next statement of its running setter.
TSetStep(t) ==
    /\ threads[t].stack # <<>>
    /\ Top(t).fn = "set"
    /\ LET r == IF variant = "handle"
                THEN HExecutor_value_setStep(execs[1], Top(t))
                ELSE RExecutor_value_setStep(execs[1], Top(t))
       IN /\ execs' = <<r.e>>
          /\ threads' = [threads EXCEPT ![t] = AfterStep(t, r)]
    /\ UNCHANGED <<variant, allow_del, hookcfg, uidgen, gen, calls, raises, last,
                   behaviour>>

TStep(t) == TEvalStep(t) \/ TSetStep(t)

StepNext == \/ \E t \in Threads : TRead(t)
            \/ \E t \in Threads : TAssign(t)
            \/ \E t \in Threads : TEvalStep(t)
            \/ \E t \in Threads : TSetStep(t)

StepSpec == StepInit /\ [][StepNext]_vars

\* The single-threaded runs: only thread 1 makes calls, and the interpreter
\* goes on to the next statement of a running call.
SeqStepNext == \/ TRead(1)
               \/ TAssign(1)
               \/ TEvalStep(1)
               \/ TSetStep(1)

SeqStepSpec == StepInit /\ [][SeqStepNext]_vars /\ WF_vars(TStep(1))

\* ------------------------------------------------------------------ claims

Reads == {"read", "run"}

\* The hooks of a list as a set, and how many there are (None: none).
HookCount(hooks) == IF hooks.kind = "None" THEN 0 ELSE Len(hooks.items)

\* C1: while the wrapped function of an Executor has not raised, it has been
\* invoked at most once, and exactly once iff some read found the Executor
\* NOT_EVALUATED; a read that finds it EVALUATED or MODIFIED invokes nothing and
\* returns the cached result.
C1_InvokedAtMostOnce ==
    [][\A h \in DOMAIN execs' :
         LET e == execs'[h]
         IN /\ ~e.raised => /\ e.invoked <= 1
                            /\ (e.invoked = 1) <=> e.readNE
            /\ (h \in Handles /\ last'.op \in Reads /\ last'.h = h
                  /\ execs[h].state # NOT_EVALUATED)
               => /\ e.invoked = execs[h].invoked
                  /\ last'.exc = "none"
                  /\ last'.ret = execs[h].result
                  /\ e.result = execs[h].result]_vars

\* A second read of an Executor that was evaluated once returned its cached result.
C1_Witness ==
    \E h \in Handles :
        /\ last.op = "read" /\ last.h = h /\ last.pre = EVALUATED
        /\ execs[h].invoked = 1 /\ ~execs[h].raised
        /\ last.ret = func(execs[h].args)

\* C2: once a value v is assigned to an Executor, it is MODIFIED with result v,
\* every read returns v, and neither the assignment nor any later read or
\* assignment invokes the wrapped function; assigned before any read found it
\* NOT_EVALUATED, the function was never invoked.
C2_AssignedValueIsRead ==
    [][\A h \in DOMAIN execs' :
         LET e == execs'[h]
         IN e.assigned # None =>
              /\ e.state = MODIFIED
              /\ e.result = e.assigned
              /\ (last'.op \in Reads /\ last'.h = h)
                 => (last'.ret = e.assigned /\ last'.exc = "none")
              /\ (last'.op = "assign" /\ last'.h = h) => e.assigned = last'.arg
              /\ h \in Handles => e.invoked = execs[h].invoked
              /\ ~e.readNE => e.invoked = 0]_vars

\* A read returned the value assigned to an Executor that was never evaluated.
C2_Witness ==
    \E h \in Handles :
        /\ last.op = "read" /\ last.h = h /\ last.pre = MODIFIED
        /\ execs[h].assigned # None /\ last.ret = execs[h].assigned
        /\ execs[h].invoked = 0

\* C3: an Executor is constructed NOT_EVALUATED; a read that succeeds moves
\* NOT_EVALUATED to EVALUATED and leaves EVALUATED and MODIFIED alone; an
\* assignment moves every state to MODIFIED; so no step leaves MODIFIED, returns
\* to NOT_EVALUATED or goes from MODIFIED to EVALUATED.
C3_TransitionTable ==
    [][/\ \A h \in DOMAIN execs' \ Handles : execs'[h].state = NOT_EVALUATED
       /\ \A h \in Handles :
            LET s == execs[h].state
                t == execs'[h].state
            IN /\ (last'.op = "assign" /\ last'.h = h) => t = MODIFIED
               /\ (last'.op \in Reads /\ last'.h = h /\ last'.exc = "none")
                  => t = (IF s = NOT_EVALUATED THEN EVALUATED ELSE s)
               /\ s = MODIFIED => t = MODIFIED
               /\ s = EVALUATED => t \in {EVALUATED, MODIFIED}
               /\ (s = EVALUATED /\ t = MODIFIED) => (last'.op = "assign" /\ last'.h = h)
               /\ (s = NOT_EVALUATED /\ t = MODIFIED) => (last'.op = "assign" /\ last'.h = h)
               /\ (s = NOT_EVALUATED /\ t = EVALUATED) => last'.op \in Reads \cup {"runAll"}
      ]_vars

\* An Executor was read, then assigned, then read again: it is MODIFIED.
C3_Witness ==
    \E h \in Handles :
        /\ last.op = "read" /\ last.h = h /\ last.pre = MODIFIED
        /\ execs[h].state = MODIFIED /\ execs[h].invoked = 1

\* C4 (handle variant): the on_eval hooks are called only by the read that moves
\* the Executor from NOT_EVALUATED to EVALUATED, each once; a read in EVALUATED or
\* MODIFIED calls no hook; an assignment calls no on_eval hook; an Executor that
\* was never evaluated has had no on_eval hook called.
C4_OnEvalOnce ==
    variant = "handle" =>
      /\ \A h \in Handles :
           LET e == execs[h]
               n == HookCount(e.on_eval_hooks)
           IN /\ e.evalFires \in {0, n}
              /\ e.state = EVALUATED => e.evalFires = n
              /\ e.state = NOT_EVALUATED => e.evalFires = 0
              /\ (e.state = MODIFIED /\ e.invoked = 0) => e.evalFires = 0
      /\ (last.op = "read" /\ last.pre # NOT_EVALUATED) => last.fired = <<>>
      /\ last.op = "assign"
         => \A i \in 1..Len(last.fired) : last.fired[i][1] # "on_eval_hooks"
      /\ (last.op = "read" /\ last.pre = NOT_EVALUATED /\ last.exc = "none")
         => /\ Len(last.fired) = HookCount(execs[last.h].on_eval_hooks)
            /\ \A i \in 1..Len(last.fired) :
                 /\ last.fired[i][1] = "on_eval_hooks"
                 /\ last.fired[i][2] = execs[last.h].on_eval_hooks.items[i]

\* An Executor with two on_eval hooks was evaluated, and then read again: the
\* second read called no hook and the hooks have been called twice in all.
C4_Witness ==
    /\ variant = "handle"
    /\ last.op = "read" /\ last.pre = EVALUATED /\ last.fired = <<>>
    /\ execs[last.h].evalFires = 2
    /\ HookCount(execs[last.h].on_eval_hooks) = 2

\* The hook list an assignment fires, by the state it finds.
ModifiedList(pre) == IF pre = NOT_EVALUATED THEN "on_modified_no_eval_hooks"
                     ELSE IF pre = EVALUATED THEN "on_modified_after_eval_hooks"
                     ELSE "on_modified_after_mod_hooks"
ModifiedHooks(e, pre) == IF pre = NOT_EVALUATED THEN e.on_modified_no_eval_hooks
                         ELSE IF pre = EVALUATED THEN e.on_modified_after_eval_hooks
                         ELSE e.on_modified_after_mod_hooks

\* C5 (handle variant): an assignment calls the hooks of exactly one list, the
\* one chosen by the state before the assignment, each hook of it once, and no
\* hook of another list.
C5_AssignFiresOneList ==
    (variant = "handle" /\ last.op = "assign") =>
       LET e == execs[last.h]
           hooks == ModifiedHooks(e, last.pre)
       IN /\ Len(last.fired) = HookCount(hooks)
          /\ \A i \in 1..Len(last.fired) :
               /\ last.fired[i][1] = ModifiedList(last.pre)
               /\ last.fired[i][2] = hooks.items[i]

\* An EVALUATED Executor whose lists have different lengths was assigned: the
\* on_modified_after_eval list, and only it, fired.
C5_Witness ==
    /\ variant = "handle" /\ last.op = "assign" /\ last.pre = EVALUATED
    /\ Len(last.fired) = 1
    /\ HookCount(execs[last.h].on_modified_no_eval_hooks) = 0
    /\ HookCount(execs[last.h].on_modified_after_mod_hooks) = 2

\* C6: a read of a NOT_EVALUATED Executor invokes the wrapped function, also
\* after an earlier invocation raised; if the invocation raises, the read raises,
\* the Executor stays NOT_EVALUATED with no result cached and no hook is called.
C6_RaiseKeepsNotEvaluated ==
    [][\A h \in Handles :
         (last'.op \in Reads /\ last'.h = h) =>
            /\ execs[h].state = NOT_EVALUATED
               => execs'[h].invoked = execs[h].invoked + 1
            /\ last'.exc = "FuncError"
               => /\ execs[h].state = NOT_EVALUATED
                  /\ execs'[h].state = NOT_EVALUATED
                  /\ execs'[h].result = None
                  /\ execs'[h].evalFires = execs[h].evalFires
                  /\ last'.fired = <<>>
                  /\ calls' = calls
            /\ execs'[h].state # execs[h].state => last'.exc # "FuncError"
            /\ execs'[h].result # execs[h].result => last'.exc # "FuncError"]_vars

\* A read raised, and the next read of the same Executor invoked the function
\* again and evaluated it.
C6_Witness ==
    \E h \in Handles :
        /\ last.op = "read" /\ last.h = h /\ last.pre = NOT_EVALUATED
        /\ last.exc = "none"
        /\ execs[h].raised /\ execs[h].invoked = 2 /\ execs[h].state = EVALUATED

\* C7 (handle variant), as claimed: a factory call succeeds and returns a new
\* NOT_EVALUATED Executor bound to the arguments, without invoking the function.
C7_FactoryCallSucceeds ==
    (variant = "handle" /\ last.op = "call") =>
       /\ last.exc = "none"
       /\ last.h \in Handles
       /\ execs[last.h].state = NOT_EVALUATED
       /\ execs[last.h].args = last.arg
       /\ execs[last.h].invoked = 0

\* C8 (handle variant), as claimed: a factory call succeeds; with an id generator
\* the new Executor's identifier is the value the generator returned; without
\* one it is the Executor's identity.
C8_FactoryCallUid ==
    (variant = "handle" /\ last.op = "call") =>
       /\ last.exc = "none"
       /\ last.h \in Handles
       /\ execs[last.h].uid = (IF uidgen THEN gen ELSE last.h)

\* C9 (registry variant), as claimed: a factory call adds one entry to the
\* registry and replaces none.
C9_CallAddsEntry ==
    [][(variant = "registry" /\ last'.op = "call") =>
         /\ Len(calls') = Len(calls) + 1
         /\ \A i \in 1..Len(calls) : calls'[i] = calls[i]]_vars

\* C10 (registry variant): when runAll returns, the keys of its mapping are the
\* keys the registry had when it started, the value under a key is the result of
\* that key's Executor, which is the wrapped function applied to the call's
\* arguments unless a value was assigned, and a read of that Executor afterwards
\* returns the same value.
C10_RunAllMapping ==
    [][(variant = "registry" /\ last'.op = "runAll" /\ last'.exc = "none") =>
         /\ Len(last'.map) = Len(calls)
         /\ \A i \in 1..Len(calls) :
              LET h == calls[i][2]
                  v == last'.map[i][2]
              IN /\ last'.map[i][1] = calls[i][1]
                 /\ v = execs'[h].result
                 /\ execs[h].assigned = None => v = func(execs[h].args)
                 /\ execs[h].assigned # None => v = execs[h].assigned
                 /\ RExecutor_eval(execs', calls', h, FALSE).ret = v
                 /\ RExecutor_eval(execs', calls', h, FALSE).exc = "none"]_vars

\* runAll returned two values on a factory that deletes after evaluation: both
\* entries were evaluated by the sweep and the registry is empty.
C10_Witness ==
    /\ variant = "registry" /\ allow_del
    /\ last.op = "runAll" /\ last.exc = "none"
    /\ Len(last.map) = 2 /\ calls = <<>>
    /\ \A h \in Handles : execs[h].state = EVALUATED /\ execs[h].invoked = 1

\* C11 (registry variant, delete after evaluation), as claimed: when runAll
\* returns the registry is empty, and a runAll that follows returns the empty
\* mapping.
C11_RunAllEmptiesRegistry ==
    (variant = "registry" /\ allow_del /\ last.op = "runAll" /\ last.exc = "none") =>
       /\ calls = <<>>
       /\ RLazyEvaluate_runAll(execs, calls, 0).map = <<>>
       /\ last.again => last.map = <<>>

\* C12 (registry variant, entries retained): a runAll that directly follows a
\* runAll that returned returns the same mapping, invokes nothing and changes
\* neither the registry nor any Executor; so does any runAll made in the state a
\* returning runAll leaves.
C12_RunAllIdempotent ==
    [][(variant = "registry" /\ ~allow_del /\ last'.op = "runAll" /\ last'.exc = "none") =>
         LET r == RLazyEvaluate_runAll(execs', calls', 0)
         IN /\ r.exc = "none"
            /\ r.map = last'.map
            /\ r.execs = execs'
            /\ r.calls = calls'
            /\ last'.again => /\ last'.map = last.map
                              /\ execs' = execs
                              /\ calls' = calls
                              /\ raises' = raises]_vars

\* A second runAll in a row returned the two values of the first; each function
\* was invoked once.
C12_Witness ==
    /\ variant = "registry" /\ ~allow_del
    /\ last.op = "runAll" /\ last.exc = "none" /\ last.again
    /\ Len(last.map) = 2 /\ Len(calls) = 2
    /\ \A h \in Handles : execs[h].state = EVALUATED /\ execs[h].invoked = 1

\* C13 (registry variant), as claimed: after run returned the value of a call,
\* run with the same identifier returns that value again, without an error and
\* without invoking the function, whatever the deletion setting.
C13_RunTwiceMemoized ==
    (variant = "registry" /\ last.op = "run" /\ last.exc = "none") =>
       LET r == RLazyEvaluate_runId(execs, calls, execs[last.h].uid, FALSE)
       IN /\ r.exc = "none"
          /\ r.ret = last.ret
          /\ r.execs = execs

\* C14 (registry variant): run changes no Executor but the one its argument
\* resolves to, removes no other entry from the registry and adds none; given
\* the handle of that Executor or its integer identifier, run has the same
\* outcome.
C14_RunEvaluatesOnlyTarget ==
    [][(variant = "registry" /\ last'.op = "run") =>
         /\ \A h \in Handles : h # last'.h => execs'[h] = execs[h]
         /\ \A i \in 1..Len(calls) :
              calls[i][2] # last'.h => \E j \in 1..Len(calls') : calls'[j] = calls[i]
         /\ \A j \in 1..Len(calls') : \E i \in 1..Len(calls) : calls[i] = calls'[j]
         /\ last'.h # 0 =>
              \A x \in {[kind |-> "Executor", v |-> last'.h],
                        [kind |-> "int", v |-> execs[last'.h].uid]} :
                 LET r == RLazyEvaluate_runId(execs, calls, ResolveId(x),
                                              last'.exc = "FuncError")
                 IN /\ r.ret = last'.ret
                    /\ r.exc = last'.exc
                    /\ r.calls = calls']_vars

\* run evaluated one call while another call of the factory is still
\* NOT_EVALUATED, never invoked and in the registry.
C14_Witness ==
    /\ variant = "registry"
    /\ last.op = "run" /\ last.pre = NOT_EVALUATED /\ last.exc = "none"
    /\ execs[last.h].state = EVALUATED
    /\ \E g \in Handles : /\ g # last.h
                          /\ execs[g].state = NOT_EVALUATED
                          /\ execs[g].invoked = 0
                          /\ HasKey(calls, execs[g].uid)

\* C15 (registry variant): run with an identifier that is not a key of the
\* registry raises KeyError and changes nothing: no function is invoked, no
\* Executor and no entry changes.
C15_RunMissingId ==
    [][(variant = "registry" /\ last'.op = "run") =>
         /\ last'.h = 0 => /\ last'.exc = "KeyError"
                           /\ execs' = execs
                           /\ calls' = calls
                           /\ raises' = raises
         /\ \A k \in 1..(MaxExecs + 1) :
              ~HasKey(calls, k) =>
                 RLazyEvaluate_runId(execs, calls, k, FALSE)
                 = [execs |-> execs, calls |-> calls, ret |-> None, exc |-> "KeyError"]]_vars

\* run raised KeyError while the registry holds a call that is still
\* NOT_EVALUATED and was not invoked.
C15_Witness ==
    /\ variant = "registry"
    /\ last.op = "run" /\ last.exc = "KeyError" /\ last.h = 0
    /\ \E i \in 1..Len(calls) : /\ execs[calls[i][2]].state = NOT_EVALUATED
                                /\ execs[calls[i][2]].invoked = 0

\* C16 (registry variant): delID changes no Executor and invokes nothing; when
\* deletion is not permitted it leaves the registry as it is and raises nothing;
\* when it is permitted and the identifier is a key, exactly that entry is
\* removed and the others keep their order; given an identifier that is absent
\* it removes nothing.
C16_DelIDFrame ==
    [][(variant = "registry" /\ last'.op = "delID") =>
         /\ execs' = execs
         /\ raises' = raises
         /\ ~allow_del => (calls' = calls /\ last'.exc = "none")
         /\ allow_del => \/ /\ last'.exc = "none"
                            /\ \E k \in Keys(calls) :
                                 calls' = RLazyEvaluate_delID(calls, k).calls
                         \/ last'.exc = "KeyError" /\ calls' = calls
         /\ \A x \in CallIdArgs :
              LET k == ResolveId(x)
                  r == RLazyEvaluate_delID(calls, k)
              IN IF allow_del /\ HasKey(calls, k)
                 THEN /\ r.exc = "none"
                      /\ Keys(r.calls) = Keys(calls) \ {k}
                      /\ Len(r.calls) = Len(calls) - 1
                      /\ \A i \in 1..Len(r.calls) :
                           \E j \in i..Len(calls) : calls[j] = r.calls[i]
                 ELSE /\ r.calls = calls
                      /\ ~allow_del => r.exc = "none"]_vars

\* delID removed one of two entries; the other entry is still in the registry
\* and its Executor is still NOT_EVALUATED.
C16_Witness ==
    /\ variant = "registry" /\ allow_del
    /\ last.op = "delID" /\ last.exc = "none"
    /\ Len(execs) = 2 /\ Len(calls) = 1
    /\ \A h \in Handles : execs[h].state = NOT_EVALUATED /\ execs[h].invoked = 0

\* C17 (handle variant), as claimed: a construction of an Executor or of a
\* factory that is given a function that is not callable, a hook collection that
\* is not a list, or a hook collection with an entry that is not callable raises
\* and creates nothing.
C17_BadConstructionRejected ==
    (variant = "handle" /\ last.op \in {"Executor", "wrap"}
       /\ last.given \in {"f not callable", "hooks not a list", "hook not callable"})
    => (last.exc # "none" /\ last.h = 0)

\* C18 (legacy variant): when runAll returns, its mapping has one item for every
\* call that was recorded and whose value was not yet returned, in the order the
\* calls were made, each the identifier with the wrapped function applied to the
\* call's arguments; run returns that same value for the call of the identifier
\* it is given, whatever the order the calls were made in.
C18_LegacyRunAllMapping ==
    [][variant = "legacy" =>
         /\ (last'.op = "runAll" /\ last'.exc = "none") =>
              /\ Len(last'.map) = Len(calls)
              /\ \A i \in 1..Len(calls) :
                   last'.map[i] = <<calls[i][1], func(execs[calls[i][2]].args)>>
              /\ \A i, j \in 1..Len(calls) : i < j => calls[i][2] < calls[j][2]
              /\ {calls[i][2] : i \in 1..Len(calls)} = {h \in Handles : ~execs[h].done}
         /\ (last'.op = "run" /\ last'.exc = "none") =>
              /\ last'.h \in Handles
              /\ execs[last'.h].uid = last'.arg
              /\ ~execs[last'.h].done
              /\ last'.ret = func(execs[last'.h].args)
              /\ \E i \in 1..Len(calls) :
                   /\ calls[i][1] = last'.arg
                   /\ Legacy_runAll(execs, calls, 0).map[i][2] = last'.ret]_vars

\* Three calls were made, the second was run on its own, and runAll then
\* returned the first and the third, in that order.
C18_Witness ==
    /\ variant = "legacy"
    /\ last.op = "runAll" /\ last.exc = "none"
    /\ Len(execs) = 3 /\ Len(last.map) = 2
    /\ last.map[1] = <<execs[1].uid, func(execs[1].args)>>
    /\ last.map[2] = <<execs[3].uid, func(execs[3].args)>>
    /\ execs[1].args # execs[3].args
    /\ \A h \in Handles : execs[h].done /\ execs[h].invoked = 1

\* C19 (legacy variant), as claimed: no call is ever invoked more than once,
\* also when an invocation raised; a run that returns removes its entry; a
\* runAll that returns leaves the registry empty; a runAll on an empty registry
\* invokes nothing and returns the empty mapping.
C19_LegacyAtMostOnce ==
    [][variant = "legacy" =>
         /\ \A h \in DOMAIN execs' : execs'[h].invoked <= 1
         /\ (last'.op = "run" /\ last'.exc = "none") => ~HasKey(calls', last'.arg)
         /\ (last'.op = "runAll" /\ last'.exc = "none") => calls' = <<>>
         /\ (last'.op = "runAll" /\ calls = <<>>)
            => (last'.map = <<>> /\ last'.exc = "none" /\ execs' = execs)]_vars

\* str(e) of an Executor of the variant the behaviour runs.
ExecutorStr(e) == IF variant = "handle" THEN HExecutor_repr(e) ELSE RExecutor_str(e)

\* C20, as claimed: in both variants the string of an Executor, formatted from
\* the Executor as it is now, has the display name, the identifier and the tag
\* of the current state among its pieces.
C20_StrExposesNameIdState ==
    \A h \in Handles :
        LET str == ExecutorStr(execs[h])
            pieces == {str[i] : i \in 1..Len(str)}
        IN /\ f_name \in pieces
           /\ ToString(execs[h].uid) \in pieces
           /\ StateTag(execs[h].state) \in pieces
           /\ \A t \in States \ {execs[h].state} : StateTag(t) \notin pieces

\* The Executors a step moves from NOT_EVALUATED to EVALUATED.
Evaluated(ex1, ex2) ==
    {h \in DOMAIN ex1 : ex1[h].state = NOT_EVALUATED /\ ex2[h].state = EVALUATED}

HoldsOperation(e) == IF variant = "handle" THEN e.f ELSE e.op

\* C24, as claimed: in both variants an Executor that is EVALUATED or MODIFIED
\* no longer refers to its operation.
C24_OperationReleased ==
    \A h \in Handles : execs[h].state # NOT_EVALUATED => ~HoldsOperation(execs[h])

\* C28 (registry variant, deletion enabled), as claimed: the read of a
\* NOT_EVALUATED Executor whose entry delID has removed, when the wrapped
\* function returns, returns the function's value without an error, invokes the
\* function once and leaves the Executor EVALUATED with its thunk released.
C28_ReadAfterDelID ==
    [][(/\ variant = "registry" /\ allow_del
        /\ last'.op = "read" /\ last'.h \in Handles
        /\ execs[last'.h].state = NOT_EVALUATED
        /\ ~HasKey(calls, execs[last'.h].uid)
        /\ raises' = raises) =>
         LET h == last'.h
         IN /\ last'.exc = "none"
            /\ last'.ret = func(execs[h].args)
            /\ execs'[h].invoked = execs[h].invoked + 1
            /\ execs'[h].state = EVALUATED
            /\ ~execs'[h].op]_vars

\* C29 (registry variant): a runAll in which an invocation raises raises that
\* exception; the entries the sweep read before the failing one are EVALUATED
\* or MODIFIED (evaluated by the sweep, and then deleted when deletion is
\* enabled, or left as they were); the failing entry is NOT_EVALUATED and in the
\* registry; the entries after it are untouched; and a runAll made next invokes
\* exactly the entries that are NOT_EVALUATED, each once.
C29_RunAllAbortsOnRaise ==
    [][(variant = "registry" /\ last'.op = "runAll" /\ raises' = raises + 1) =>
         /\ last'.exc = "FuncError"
         /\ last'.map = <<>>
         /\ \E k \in 1..Len(calls) :
              /\ execs[calls[k][2]].state = NOT_EVALUATED
              /\ execs'[calls[k][2]].state = NOT_EVALUATED
              /\ execs'[calls[k][2]].invoked = execs[calls[k][2]].invoked + 1
              /\ HasKey(calls', calls[k][1])
              /\ \A i \in 1..(k - 1) :
                   LET h == calls[i][2]
                       wasNE == execs[h].state = NOT_EVALUATED
                   IN /\ execs'[h].state = (IF wasNE THEN EVALUATED ELSE execs[h].state)
                      /\ execs'[h].invoked = execs[h].invoked + (IF wasNE THEN 1 ELSE 0)
                      /\ HasKey(calls', calls[i][1]) <=> ~(wasNE /\ allow_del)
              /\ \A i \in (k + 1)..Len(calls) :
                   /\ execs'[calls[i][2]] = execs[calls[i][2]]
                   /\ HasKey(calls', calls[i][1])
         /\ \A h \in Handles :
              (\A i \in 1..Len(calls) : calls[i][2] # h) => execs'[h] = execs[h]
         /\ LET r == RLazyEvaluate_runAll(execs', calls', 0)
            IN \A h \in Handles :
                 r.execs[h].invoked
                 = execs'[h].invoked
                   + (IF /\ execs'[h].state = NOT_EVALUATED
                         /\ \E i \in 1..Len(calls') : calls'[i][2] = h
                      THEN 1 ELSE 0)]_vars

\* A runAll over two calls raised at the second: the first call is EVALUATED and
\* was invoked once, the second is NOT_EVALUATED and still in the registry.
C29_Witness ==
    /\ variant = "registry"
    /\ last.op = "runAll" /\ last.exc = "FuncError"
    /\ Len(execs) = 2
    /\ execs[1].state = EVALUATED /\ execs[1].invoked = 1 /\ ~execs[1].raised
    /\ execs[2].state = NOT_EVALUATED /\ execs[2].raised
    /\ HasKey(calls, execs[2].uid)

\* C25 (stepwise runs, two threads, no mutual exclusion): eval() looks at the
\* state once; an activation that has passed the check goes on to invoke the
\* function, store what it returned, write EVALUATED and call every on_eval
\* hook, whatever the other thread has made of the Executor in between.
C25_EvalActsOnStaleCheck ==
    [][\A t \in Threads :
         (/\ threads[t].stack # <<>>
          /\ threads'[t] # threads[t]
          /\ Top(t).fn = "eval"
          /\ raises' = raises) =>
            /\ Top(t).pc = "invoke" => execs'[1].invoked = execs[1].invoked + 1
            /\ Top(t).pc = "store"  => execs'[1].result = func(execs[1].args)
            /\ Top(t).pc = "state"  => execs'[1].state = EVALUATED
            /\ Top(t).pc = "hooks"  => execs'[1].evalFires = execs[1].evalFires + 1]_vars

\* Two eval() calls and an assignment by two threads have all returned: the
\* function was invoked twice, each on_eval hook was called twice, and one
\* invocation was made after the assignment had returned, whose value is lost.
C25_Witness ==
    /\ variant = "handle"
    /\ Len(behaviour) >= 1
    /\ \A i \in 1..Len(behaviour) : behaviour[i] = "pass"
    /\ \A t \in Threads : threads[t].stack = <<>> /\ threads[t].ops >= 1
    /\ raises = 0
    /\ execs[1].invoked = 2
    /\ execs[1].evalFires = 2 * Len(behaviour)
    /\ \E t \in Threads : threads[t].late
    /\ execs[1].assigned # None
    /\ execs[1].state = EVALUATED

\* C26 (stepwise runs, one thread, handle variant), as claimed: the first call
\* made on an Executor is a read and has returned; it returned what the wrapped
\* function returned and the state is EVALUATED, whatever the on_eval hooks do.
C26_ReadReturnsFunctionValue ==
    (/\ variant = "handle"
     /\ threads[1].ops = 1 /\ threads[1].top = "read"
     /\ threads[1].stack = <<>> /\ threads[1].exc = "none") =>
       /\ threads[1].ret = func(execs[1].args)
       /\ execs[1].state = EVALUATED

\* C27 (stepwise runs, one thread, both variants): a read made by an on_eval
\* hook (the eval_hook) of the Executor being evaluated finds the state already
\* EVALUATED or MODIFIED, so it goes from its check to its return and returns
\* the stored result, which is what the function returned unless a hook
\* assigned; the function is not invoked twice, no on_eval hook is called
\* twice, the stack never holds more than the outer call and one hook's call,
\* and every call that has started returns.
C27_ReentrantReadIsCached ==
    /\ [](LET st == threads[1].stack
          IN /\ \A k \in 2..Len(st) :
                  st[k].fn = "eval" =>
                    /\ st[k].pc \in {"check", "return"}
                    /\ execs[1].state # NOT_EVALUATED
                    /\ (execs[1].assigned = None /\ \A i \in 1..Len(behaviour) :
                                                       behaviour[i] # "assign")
                         => execs[1].result = func(execs[1].args)
             /\ execs[1].invoked <= raises + 1
             /\ execs[1].evalFires <= Len(behaviour)
             /\ Len(st) <= 2)
    /\ (threads[1].stack # <<>>) ~> (threads[1].stack = <<>>)

\* A first read has returned the function's value from an Executor one of whose
\* on_eval hooks reads the value: one invocation, each hook called once.
C27_Witness ==
    /\ threads[1].ops = 1 /\ threads[1].top = "read"
    /\ threads[1].stack = <<>> /\ threads[1].exc = "none"
    /\ \E i \in 1..Len(behaviour) : behaviour[i] = "read"
    /\ threads[1].ret = func(execs[1].args)
    /\ execs[1].state = EVALUATED
    /\ execs[1].invoked = 1
    /\ execs[1].evalFires = Len(behaviour)

====
